---------------------------- MODULE Spec2Model ----------------------------
(***************************************************************************)
(* The van Emde Boas tree of src/python/src/trees/veb.py, with the driver  *)
(* test of tests/trees/test_veb.py.                                        *)
(*                                                                         *)
(* A tree is a record [size, min, max, summary, cluster].  Python's None   *)
(* is the empty sequence and an integer v that may be None is <<v>>, so    *)
(* that `a == b`, `a is None` and the TypeError of an ordering comparison  *)
(* or an arithmetic operation on None are all kept apart.  A method that   *)
(* mutates returns [t, err]: the object as the call left it (at normal     *)
(* return, or at the point the exception was raised) and the exception's   *)
(* name ("ok" when the call returned).  A query returns [val, err].        *)
(***************************************************************************)
EXTENDS Integers, Sequences, FiniteSets, TLC

\* ------------------------------------------------------------------ bounds
\* Most insert and delete calls in a behaviour of Spec on a tree whose universe
\* is too large to explore without a bound (queries are not counted: they
\* change nothing).
MaxCalls == 3

\* The universe sizes of the form 2^(2^k) that are modelled, and those among
\* them whose call sequences are explored without a bound.
UniverseSizes == {2, 4, 16}

ExhaustiveSizes == {2, 4}

\* The largest size a behaviour of SpecNew passes to the constructor.
MaxSize == 20

\* The values 1..MaxValue are those a behaviour of SpecBST inserts and deletes.
MaxValue == 5

\* The most keys a behaviour of SpecDrain inserts into a tree whose size is not
\* among ExhaustiveSizes.
MaxKeys == 5

\* ------------------------------------------------------------ Python values
None == << >>

Some(v) == << v >>

Val(o) == o[1]

Ok(t) == [t |-> t, err |-> "ok"]

Raise(t, e) == [t |-> t, err |-> e]

Result(v) == [val |-> v, err |-> "ok"]

RaiseQ(e) == [val |-> None, err |-> e]

\* int(math.sqrt(size))
isqrt(size) == CHOOSE r \in 0..size : r * r <= size /\ (r + 1) * (r + 1) > size

\* list[i] on a list of n items: defined for -n <= i < n, a negative i counts
\* from the end; anything else raises IndexError.
IndexOk(n, i) == (0 - n) <= i /\ i < n

ListIndex(n, i) == IF i < 0 THEN i + n ELSE i

\* ---------------------------------------------------------------- vEB.__init__
RECURSIVE vEB(_)
vEB(size) ==
    IF size = 2
    THEN [size |-> size, min |-> None, max |-> None,
          summary |-> None, cluster |-> None]
    ELSE [size |-> size, min |-> None, max |-> None,
          summary |-> vEB(isqrt(size)),
          cluster |-> [i \in 0..(isqrt(size) - 1) |-> vEB(isqrt(size))]]

\* ------------------------------------------------------- high / low / get
high(self, element) == element \div isqrt(self.size)

low(self, element) == element % isqrt(self.size)

\* Mutant of get: the high part is scaled by the universe size, not its root.
getBySize(self, x, y) == x * self.size + y

get(self, x, y) == x * isqrt(self.size) + y

\* ---------------------------------------------------------------- vEB.insert
RECURSIVE insert(_, _)
\* Mutant of insertCluster: a non-empty cluster is treated like an empty one,
\* its min and max overwritten instead of the element being inserted into it.
insertClusterOverwrite(self, element) ==
    LET h == high(self, element)
        l == low(self, element)
        n == isqrt(self.size)
        i == ListIndex(n, h)
    IN  IF ~IndexOk(n, h) THEN Raise(self, "IndexError")
        ELSE LET r == insert(self.summary, h)
                 s == [self EXCEPT !.summary = r.t]
             IN  IF r.err # "ok" THEN Raise(s, r.err)
                 ELSE Ok([s EXCEPT !.cluster[i].min = Some(l),
                                   !.cluster[i].max = Some(l)])

\* lines 89-95: the element goes down into its cluster
insertCluster(self, element) ==
    LET h == high(self, element)
        l == low(self, element)
        n == isqrt(self.size)
        i == ListIndex(n, h)
    IN  IF ~IndexOk(n, h) THEN Raise(self, "IndexError")
        ELSE IF self.cluster[i].min = None
        THEN LET r == insert(self.summary, h)
                 s == [self EXCEPT !.summary = r.t]
             IN  IF r.err # "ok" THEN Raise(s, r.err)
                 ELSE Ok([s EXCEPT !.cluster[i].min = Some(l),
                                   !.cluster[i].max = Some(l)])
        ELSE LET r == insert(self.cluster[i], l)
                 s == [self EXCEPT !.cluster[i] = r.t]
             IN  IF r.err # "ok" THEN Raise(s, r.err) ELSE Ok(s)

\* Mutant of insert: a smaller element does not replace the cached minimum.
insertNoSwap(self, element) ==
    IF self.min = None
    THEN Ok([self EXCEPT !.min = Some(element), !.max = Some(element)])
    ELSE IF self.max = None THEN Raise(self, "TypeError")
    ELSE LET s2 == IF element > Val(self.max)
                   THEN [self EXCEPT !.max = Some(element)] ELSE self
         IN  IF s2.size > 2 THEN insertCluster(s2, element) ELSE Ok(s2)

\* Mutant of insert: max is set to the element without comparing them.
insertSetsMax(self, element) ==
    IF self.min = None
    THEN Ok([self EXCEPT !.min = Some(element), !.max = Some(element)])
    ELSE LET swap == element < Val(self.min)
             e == IF swap THEN Val(self.min) ELSE element
             s1 == IF swap THEN [self EXCEPT !.min = Some(element)] ELSE self
             s2 == [s1 EXCEPT !.max = Some(e)]
         IN  IF s2.size > 2 THEN insertCluster(s2, e) ELSE Ok(s2)

insert(self, element) ==
    IF self.min = None
    THEN Ok([self EXCEPT !.min = Some(element), !.max = Some(element)])
    ELSE LET swap == element < Val(self.min)
             e == IF swap THEN Val(self.min) ELSE element
             s1 == IF swap THEN [self EXCEPT !.min = Some(element)] ELSE self
         IN  IF s1.max = None THEN Raise(s1, "TypeError")
             ELSE LET s2 == IF e > Val(s1.max)
                            THEN [s1 EXCEPT !.max = Some(e)] ELSE s1
                  IN  IF s2.size > 2 THEN insertCluster(s2, e) ELSE Ok(s2)

\* ---------------------------------------------------------------- vEB.delete
RECURSIVE delete(_, _)
\* lines 124-129: the cluster became empty and the element was the maximum
deleteMaxFromSummary(self) ==
    LET summary_max == self.summary.max
        n == isqrt(self.size)
    IN  IF summary_max = None THEN Ok([self EXCEPT !.max = self.min])
        ELSE IF ~IndexOk(n, Val(summary_max)) THEN Raise(self, "IndexError")
        ELSE LET cmax == self.cluster[ListIndex(n, Val(summary_max))].max
             IN  IF cmax = None THEN Raise(self, "TypeError")
                 ELSE Ok([self EXCEPT
                            !.max = Some(get(self, Val(summary_max), Val(cmax)))])

\* Mutant of deleteFromCluster: a cluster that became empty stays in summary.
deleteFromClusterKeepsSummary(self, element, x) ==
    LET h == high(self, x)
        n == isqrt(self.size)
        i == ListIndex(n, h)
    IN  IF ~IndexOk(n, h) THEN Raise(self, "IndexError")
        ELSE
        LET r == delete(self.cluster[i], low(self, x))
            s1 == [self EXCEPT !.cluster[i] = r.t]
        IN  IF r.err # "ok" THEN Raise(s1, r.err)
            ELSE IF s1.cluster[i].min = None
            THEN Ok(s1)
            ELSE IF Some(element) = s1.max
            THEN LET cmax == s1.cluster[i].max
                 IN  IF cmax = None THEN Raise(s1, "TypeError")
                     ELSE Ok([s1 EXCEPT !.max = Some(get(s1, h, Val(cmax)))])
            ELSE Ok(s1)

\* lines 121-131: x is removed from its cluster, then summary and max follow
deleteFromCluster(self, element, x) ==
    LET h == high(self, x)
        n == isqrt(self.size)
        i == ListIndex(n, h)
    IN  IF ~IndexOk(n, h) THEN Raise(self, "IndexError")
        ELSE
        LET r == delete(self.cluster[i], low(self, x))
            s1 == [self EXCEPT !.cluster[i] = r.t]
        IN  IF r.err # "ok" THEN Raise(s1, r.err)
            ELSE IF s1.cluster[i].min = None
            THEN LET r2 == delete(s1.summary, h)
                     s2 == [s1 EXCEPT !.summary = r2.t]
                 IN  IF r2.err # "ok" THEN Raise(s2, r2.err)
                     ELSE IF Some(element) = s2.max
                     THEN deleteMaxFromSummary(s2)
                     ELSE Ok(s2)
            ELSE IF Some(element) = s1.max
            THEN LET cmax == s1.cluster[i].max
                 IN  IF cmax = None THEN Raise(s1, "TypeError")
                     ELSE Ok([s1 EXCEPT !.max = Some(get(s1, h, Val(cmax)))])
            ELSE Ok(s1)

\* Mutant of deleteGeneral: the new minimum is found but not stored in min.
deleteGeneralKeepsMin(self, element) ==
    IF Some(element) = self.min
    THEN LET first_cluster == self.summary.min
             n == isqrt(self.size)
         IN  IF first_cluster = None THEN Raise(self, "TypeError")
             ELSE IF ~IndexOk(n, Val(first_cluster)) THEN Raise(self, "IndexError")
             ELSE LET cmin == self.cluster[ListIndex(n, Val(first_cluster))].min
                  IN  IF cmin = None THEN Raise(self, "TypeError")
                      ELSE deleteFromCluster(self, element,
                               get(self, Val(first_cluster), Val(cmin)))
    ELSE Raise(self, "UnboundLocalError")

\* lines 116-121: x is bound only when the element is the minimum
deleteGeneral(self, element) ==
    IF Some(element) = self.min
    THEN LET first_cluster == self.summary.min
             n == isqrt(self.size)
         IN  IF first_cluster = None THEN Raise(self, "TypeError")
             ELSE IF ~IndexOk(n, Val(first_cluster)) THEN Raise(self, "IndexError")
             ELSE LET cmin == self.cluster[ListIndex(n, Val(first_cluster))].min
                  IN  IF cmin = None THEN Raise(self, "TypeError")
                      ELSE LET x == get(self, Val(first_cluster), Val(cmin))
                           IN  deleteFromCluster([self EXCEPT !.min = Some(x)],
                                                 element, x)
    ELSE Raise(self, "UnboundLocalError")

\* Mutant of delete: the base case keeps the element and drops the other key.
deleteKeepsElement(self, element) ==
    IF self.min = self.max
    THEN Ok([self EXCEPT !.min = None, !.max = None])
    ELSE IF self.size = 2
    THEN Ok([self EXCEPT !.min = Some(element), !.max = Some(element)])
    ELSE deleteGeneral(self, element)

\* lines 105-131
delete(self, element) ==
    IF self.min = self.max
    THEN Ok([self EXCEPT !.min = None, !.max = None])
    ELSE IF self.size = 2
    THEN LET m == IF element = 0 THEN 1 ELSE 0
         IN  Ok([self EXCEPT !.min = Some(m), !.max = Some(m)])
    ELSE deleteGeneral(self, element)

\* ------------------------------------------------------------------ vEB.isin
RECURSIVE isin(_, _)
isin(self, element) ==
    IF Some(element) = self.min \/ Some(element) = self.max THEN Result(TRUE)
    ELSE IF self.size = 2 THEN Result(FALSE)
    ELSE LET h == high(self, element)
             n == isqrt(self.size)
         IN  IF ~IndexOk(n, h) THEN RaiseQ("IndexError")
             ELSE isin(self.cluster[ListIndex(n, h)], low(self, element))

\* ------------------------------------------------------------- vEB.successor
RECURSIVE successor(_, _)
\* Mutant of successorNextCluster: the next cluster's max is taken, not its min.
successorNextClusterMax(self, element) ==
    LET r == successor(self.summary, high(self, element))
        n == isqrt(self.size)
    IN  IF r.err # "ok" THEN r
        ELSE IF r.val = None THEN Result(None)
        ELSE IF ~IndexOk(n, Val(r.val)) THEN RaiseQ("IndexError")
        ELSE LET offset == self.cluster[ListIndex(n, Val(r.val))].max
             IN  IF offset = None THEN RaiseQ("TypeError")
                 ELSE Result(Some(get(self, Val(r.val), Val(offset))))

\* lines 159-164: the least element of the next non-empty cluster
successorNextCluster(self, element) ==
    LET r == successor(self.summary, high(self, element))
        n == isqrt(self.size)
    IN  IF r.err # "ok" THEN r
        ELSE IF r.val = None THEN Result(None)
        ELSE IF ~IndexOk(n, Val(r.val)) THEN RaiseQ("IndexError")
        ELSE LET offset == self.cluster[ListIndex(n, Val(r.val))].min
             IN  IF offset = None THEN RaiseQ("TypeError")
                 ELSE Result(Some(get(self, Val(r.val), Val(offset))))

successor(self, element) ==
    IF self.size = 2
    THEN IF element = 0 /\ self.max = Some(1) THEN Result(Some(1))
         ELSE Result(None)
    ELSE IF self.min # None /\ element < Val(self.min) THEN Result(self.min)
    ELSE LET h == high(self, element)
             n == isqrt(self.size)
         IN  IF ~IndexOk(n, h) THEN RaiseQ("IndexError")
             ELSE LET max_low == self.cluster[ListIndex(n, h)].max
                  IN  IF max_low # None /\ low(self, element) < Val(max_low)
                      THEN LET r == successor(self.cluster[ListIndex(n, h)],
                                              low(self, element))
                           IN  IF r.err # "ok" THEN r
                               ELSE IF r.val = None THEN RaiseQ("TypeError")
                               ELSE Result(Some(get(self, h, Val(r.val))))
                      ELSE successorNextCluster(self, element)

\* ----------------------------------------------------------- vEB.predecessor
RECURSIVE predecessor(_, _)
\* Mutant of predecessorPrevCluster: with no earlier cluster the answer is None,
\* the cached minimum is forgotten.
predecessorPrevClusterNoMin(self, element) ==
    LET r == predecessor(self.summary, high(self, element))
        n == isqrt(self.size)
    IN  IF r.err # "ok" THEN r
        ELSE IF r.val = None THEN Result(None)
        ELSE IF ~IndexOk(n, Val(r.val)) THEN RaiseQ("IndexError")
        ELSE LET offset == self.cluster[ListIndex(n, Val(r.val))].max
             IN  IF offset = None THEN RaiseQ("TypeError")
                 ELSE Result(Some(get(self, Val(r.val), Val(offset))))

\* lines 192-200: the greatest element of the previous non-empty cluster, or
\* the cached minimum
predecessorPrevCluster(self, element) ==
    LET r == predecessor(self.summary, high(self, element))
        n == isqrt(self.size)
    IN  IF r.err # "ok" THEN r
        ELSE IF r.val = None
        THEN IF self.min # None /\ element > Val(self.min)
             THEN Result(self.min) ELSE Result(None)
        ELSE IF ~IndexOk(n, Val(r.val)) THEN RaiseQ("IndexError")
        ELSE LET offset == self.cluster[ListIndex(n, Val(r.val))].max
             IN  IF offset = None THEN RaiseQ("TypeError")
                 ELSE Result(Some(get(self, Val(r.val), Val(offset))))

predecessor(self, element) ==
    IF self.size = 2
    THEN IF element = 1 /\ self.min = Some(0) THEN Result(Some(0))
         ELSE Result(None)
    ELSE IF self.max # None /\ element > Val(self.max) THEN Result(self.max)
    ELSE LET h == high(self, element)
             n == isqrt(self.size)
         IN  IF ~IndexOk(n, h) THEN RaiseQ("IndexError")
             ELSE LET min_low == self.cluster[ListIndex(n, h)].min
                  IN  IF min_low # None /\ low(self, element) > Val(min_low)
                      THEN LET r == predecessor(self.cluster[ListIndex(n, h)],
                                                low(self, element))
                           IN  IF r.err # "ok" THEN r
                               ELSE IF r.val = None THEN RaiseQ("TypeError")
                               ELSE Result(Some(get(self, h, Val(r.val))))
                      ELSE predecessorPrevCluster(self, element)

\* ------------------------------------------------------------------- state
VARIABLES
    tree,   \* the vEB object
    pc,     \* Spec: "returned" when a call has just returned or raised, "idle"
            \* when the caller is about to make its next call;
            \* SpecTest: the statement of test_veb that runs next
    op,     \* the last call: "new", "insert", "delete", "isin", "successor",
            \* "predecessor"; "none" once the caller has taken its result
    arg,    \* its argument
    err,    \* "ok" or the exception it raised
    ret,    \* what it returned (None for a mutator)
    i,      \* test_veb's loop variable
    S,      \* the set the calls so far describe: the in-range keys inserted and
            \* not deleted since
    hist,   \* "distinct": every insert or delete call so far was the insert of
            \*   an in-range key not in S;
            \* "inserts": every one was an insert of an in-range key;
            \* "any": otherwise
    calls   \* the insert and delete calls made so far, counted up to MaxCalls

vars == << tree, pc, op, arg, err, ret, i, S, hist, calls >>

U == tree.size

InRange(k) == 0 <= k /\ k < U

\* The keys of the universe, and one key just outside it on each side.
Keys == (0 - 1)..U

\* The bookkeeping of one more insert or delete call.
CallAllowed == U \in ExhaustiveSizes \/ calls < MaxCalls

Counted == IF calls < MaxCalls THEN calls + 1 ELSE calls

\* ----------------------------------------------------- the calls of a caller
\* tree = vEB(size)
Init ==
    /\ \E size \in UniverseSizes : tree = vEB(size) /\ arg = size
    /\ pc = "returned"
    /\ op = "new"
    /\ err = "ok"
    /\ ret = None
    /\ i = 0
    /\ S = {}
    /\ hist = "distinct"
    /\ calls = 0

\* tree.insert(k)
Insert(k) ==
    /\ pc = "idle"
    /\ CallAllowed
    /\ LET r == insert(tree, k)
       IN  /\ tree' = r.t
           /\ err' = r.err
    /\ pc' = "returned"
    /\ op' = "insert"
    /\ arg' = k
    /\ ret' = None
    /\ S' = IF InRange(k) THEN S \cup {k} ELSE S
    /\ hist' = IF ~InRange(k) \/ hist = "any" THEN "any"
               ELSE IF k \in S THEN "inserts" ELSE hist
    /\ calls' = Counted
    /\ UNCHANGED i

\* tree.delete(k)
Delete(k) ==
    /\ pc = "idle"
    /\ CallAllowed
    /\ LET r == delete(tree, k)
       IN  /\ tree' = r.t
           /\ err' = r.err
    /\ pc' = "returned"
    /\ op' = "delete"
    /\ arg' = k
    /\ ret' = None
    /\ S' = S \ {k}
    /\ hist' = "any"
    /\ calls' = Counted
    /\ UNCHANGED i

\* tree.isin(k)
IsIn(k) ==
    /\ pc = "idle"
    /\ LET r == isin(tree, k)
       IN  ret' = r.val /\ err' = r.err
    /\ pc' = "returned"
    /\ op' = "isin"
    /\ arg' = k
    /\ UNCHANGED << tree, i, S, hist, calls >>

\* tree.successor(k)
Successor(k) ==
    /\ pc = "idle"
    /\ LET r == successor(tree, k)
       IN  ret' = r.val /\ err' = r.err
    /\ pc' = "returned"
    /\ op' = "successor"
    /\ arg' = k
    /\ UNCHANGED << tree, i, S, hist, calls >>

\* tree.predecessor(k)
Predecessor(k) ==
    /\ pc = "idle"
    /\ LET r == predecessor(tree, k)
       IN  ret' = r.val /\ err' = r.err
    /\ pc' = "returned"
    /\ op' = "predecessor"
    /\ arg' = k
    /\ UNCHANGED << tree, i, S, hist, calls >>

\* The caller takes the result (or catches the exception) and goes on.
Continue ==
    /\ pc = "returned"
    /\ pc' = "idle"
    /\ op' = "none"
    /\ arg' = 0
    /\ err' = "ok"
    /\ ret' = None
    /\ UNCHANGED << tree, i, S, hist, calls >>

Next ==
    \/ Continue
    \/ \E k \in Keys : Insert(k)
    \/ \E k \in Keys : Delete(k)
    \/ \E k \in Keys : IsIn(k)
    \/ \E k \in Keys : Successor(k)
    \/ \E k \in Keys : Predecessor(k)

Spec == Init /\ [][Next]_vars

\* ------------------------------------------------------------------ test_veb
\* The universe size of the test's tree (and the bound of its loops).
TestSize == 16

\* line 5: tree = vEB(16)
TestInit ==
    /\ tree = vEB(TestSize)
    /\ pc = "insert"
    /\ op = "new"
    /\ arg = TestSize
    /\ err = "ok"
    /\ ret = None
    /\ i = 0
    /\ S = {}
    /\ hist = "distinct"
    /\ calls = 0

\* line 7: tree.insert(i)
TestInsert ==
    /\ pc = "insert"
    /\ LET r == insert(tree, i)
       IN  /\ tree' = r.t
           /\ err' = r.err
           /\ pc' = IF r.err # "ok" THEN "raised" ELSE "get"
    /\ op' = "insert"
    /\ arg' = i
    /\ ret' = None
    /\ S' = S \cup {i}
    /\ UNCHANGED << i, hist, calls >>

\* line 8: assert tree.get(tree.high(i), tree.low(i)) == i; line 6: the next i
TestGet ==
    /\ pc = "get"
    /\ IF get(tree, high(tree, i), low(tree, i)) # i
       THEN pc' = "failed" /\ i' = i
       ELSE IF i + 1 < TestSize
       THEN pc' = "insert" /\ i' = i + 1
       ELSE pc' = "minmax" /\ i' = 0
    /\ UNCHANGED << tree, op, arg, err, ret, S, hist, calls >>

\* lines 10-11: assert tree.min == 0; assert tree.max == 15
TestMinMax ==
    /\ pc = "minmax"
    /\ pc' = IF tree.min = Some(0) /\ tree.max = Some(15)
             THEN "successor" ELSE "failed"
    /\ UNCHANGED << tree, op, arg, err, ret, i, S, hist, calls >>

\* lines 13-15: if i + 1 < 16: assert tree.successor(i) == i + 1
TestSuccessor ==
    /\ pc = "successor"
    /\ IF i + 1 < 16
       THEN LET r == successor(tree, i)
            IN  /\ op' = "successor"
                /\ arg' = i
                /\ ret' = r.val
                /\ err' = r.err
                /\ pc' = IF r.err # "ok" THEN "raised"
                         ELSE IF r.val # Some(i + 1) THEN "failed"
                         ELSE "successor"
                /\ i' = IF r = Result(Some(i + 1)) THEN i + 1 ELSE i
       ELSE /\ pc' = "predecessor"
            /\ i' = 15
            /\ UNCHANGED << op, arg, err, ret >>
    /\ UNCHANGED << tree, S, hist, calls >>

\* lines 17-19: if i - 1 >= 0: assert tree.predecessor(i) == i - 1
TestPredecessor ==
    /\ pc = "predecessor"
    /\ IF i - 1 >= 0
       THEN LET r == predecessor(tree, i)
            IN  /\ op' = "predecessor"
                /\ arg' = i
                /\ ret' = r.val
                /\ err' = r.err
                /\ pc' = IF r.err # "ok" THEN "raised"
                         ELSE IF r.val # Some(i - 1) THEN "failed"
                         ELSE "predecessor"
                /\ i' = IF r = Result(Some(i - 1)) THEN i - 1 ELSE i
       ELSE /\ pc' = "isin"
            /\ i' = 0
            /\ UNCHANGED << op, arg, err, ret >>
    /\ UNCHANGED << tree, S, hist, calls >>

\* line 22: assert tree.isin(i)
TestIsIn ==
    /\ pc = "isin"
    /\ LET r == isin(tree, i)
       IN  /\ ret' = r.val
           /\ err' = r.err
           /\ pc' = IF r.err # "ok" THEN "raised"
                    ELSE IF r.val THEN "delete" ELSE "failed"
    /\ op' = "isin"
    /\ arg' = i
    /\ UNCHANGED << tree, i, S, hist, calls >>

\* line 23: tree.delete(i)
TestDelete ==
    /\ pc = "delete"
    /\ LET r == delete(tree, i)
       IN  /\ tree' = r.t
           /\ err' = r.err
           /\ pc' = IF r.err # "ok" THEN "raised" ELSE "notin"
    /\ op' = "delete"
    /\ arg' = i
    /\ ret' = None
    /\ S' = S \ {i}
    /\ hist' = "any"
    /\ UNCHANGED << i, calls >>

\* line 24: assert not tree.isin(i); line 21: the next i
TestNotIn ==
    /\ pc = "notin"
    /\ LET r == isin(tree, i)
       IN  /\ ret' = r.val
           /\ err' = r.err
           /\ pc' = IF r.err # "ok" THEN "raised"
                    ELSE IF r.val THEN "failed"
                    ELSE IF i + 1 < 16 THEN "isin" ELSE "final"
           /\ i' = IF r = Result(FALSE) /\ i + 1 < 16 THEN i + 1 ELSE i
    /\ op' = "isin"
    /\ arg' = i
    /\ UNCHANGED << tree, S, hist, calls >>

\* lines 26-27: assert tree.min is None; assert tree.max is None
TestFinal ==
    /\ pc = "final"
    /\ pc' = IF tree.min = None /\ tree.max = None THEN "done" ELSE "failed"
    /\ UNCHANGED << tree, op, arg, err, ret, i, S, hist, calls >>

TestNext ==
    \/ TestInsert
    \/ TestGet
    \/ TestMinMax
    \/ TestSuccessor
    \/ TestPredecessor
    \/ TestIsIn
    \/ TestDelete
    \/ TestNotIn
    \/ TestFinal

SpecTest == TestInit /\ [][TestNext]_vars

\* --------------------------------------------------- construction, high/low/get
\* vEB(size) with the exceptions of vEB.__init__: math.sqrt raises ValueError
\* on a negative size; a size of 0 or 1 is its own integer square root, so the
\* constructor calls itself with the same size until Python raises
\* RecursionError; an exception in a sub-tree's constructor leaves no object.
RECURSIVE construct(_)
construct(size) ==
    IF size = 2 THEN Ok(vEB(2))
    ELSE IF size < 0 THEN Raise(None, "ValueError")
    ELSE IF isqrt(size) = size THEN Raise(None, "RecursionError")
    ELSE LET r == construct(isqrt(size))
         IN  IF r.err # "ok" THEN Raise(None, r.err)
             ELSE Ok([size |-> size, min |-> None, max |-> None,
                      summary |-> r.t,
                      cluster |-> [j \in 0..(isqrt(size) - 1) |-> r.t]])

\* The caller is about to call vEB(size).
NewInit ==
    /\ arg \in 0..MaxSize
    /\ tree = None
    /\ pc = "new"
    /\ op = "none"
    /\ err = "ok"
    /\ ret = None
    /\ i = 0
    /\ S = {}
    /\ hist = "distinct"
    /\ calls = 0

\* tree = vEB(arg)
New ==
    /\ pc = "new"
    /\ LET r == construct(arg)
       IN  /\ tree' = r.t
           /\ err' = r.err
    /\ pc' = "returned"
    /\ op' = "new"
    /\ UNCHANGED << arg, ret, i, S, hist, calls >>

\* tree.high(x), tree.low(x) and tree.get of the two, on a tree that was built
Split(x) ==
    /\ pc \in {"returned", "split"}
    /\ tree # None
    /\ x \in 0..(tree.size - 1)
    /\ pc' = "split"
    /\ op' = "split"
    /\ arg' = x
    /\ ret' = [high |-> high(tree, x), low |-> low(tree, x),
               get |-> get(tree, high(tree, x), low(tree, x))]
    /\ UNCHANGED << tree, err, i, S, hist, calls >>

NewNext ==
    \/ New
    \/ \E x \in 0..MaxSize : Split(x)

SpecNew == NewInit /\ [][NewNext]_vars

\* ------------------------------------------------------------------------ BST
\* src/python/src/trees/bst.py.  A BST object is [root, size]; a BSTNode is
\* [value, left, right]; a reference to a node is <<node>> and None is << >>.
\* Nodes compare by identity in the code (Node defines no __eq__); a node is
\* identified here by its place in the tree.

\* BSTNode(element)
BSTNode(element) == [value |-> element, left |-> None, right |-> None]

\* BST()
BST == [root |-> None, size |-> 0]

\* lines 47-65: the loop of insert from `current` down; added tells whether a
\* node was created
RECURSIVE insertBelow(_, _)
insertBelow(current, element) ==
    IF element < current.value
    THEN IF current.left = None
         THEN [node |-> [current EXCEPT !.left = Some(BSTNode(element))],
               added |-> TRUE]
         ELSE LET r == insertBelow(Val(current.left), element)
              IN  [node |-> [current EXCEPT !.left = Some(r.node)],
                   added |-> r.added]
    ELSE IF element > current.value
    THEN IF current.right = None
         THEN [node |-> [current EXCEPT !.right = Some(BSTNode(element))],
               added |-> TRUE]
         ELSE LET r == insertBelow(Val(current.right), element)
              IN  [node |-> [current EXCEPT !.right = Some(r.node)],
                   added |-> r.added]
    ELSE [node |-> current, added |-> FALSE]

\* BST.insert
bstInsert(self, element) ==
    IF self.root = None
    THEN [root |-> Some(BSTNode(element)), size |-> self.size + 1]
    ELSE LET r == insertBelow(Val(self.root), element)
         IN  [root |-> Some(r.node),
              size |-> IF r.added THEN self.size + 1 ELSE self.size]

\* BST.search from `current`: the reference to the node found, or None
RECURSIVE bstSearch(_, _)
bstSearch(current, element) ==
    IF current = None THEN None
    ELSE IF element = Val(current).value THEN current
    ELSE IF element < Val(current).value
    THEN bstSearch(Val(current).left, element)
    ELSE bstSearch(Val(current).right, element)

\* lines 136-140: the inorder successor, the leftmost node below `node`
RECURSIVE leftmost(_)
leftmost(node) ==
    IF node.left = None THEN node ELSE leftmost(Val(node.left))

\* lines 146-149: the link to the inorder successor now leads to its right child
RECURSIVE unlinkLeftmost(_)
unlinkLeftmost(node) ==
    IF node.left = None THEN node.right
    ELSE Some([node EXCEPT !.left = unlinkLeftmost(Val(node.left))])

\* Mutant of removeNode: with two children the successor's value is copied but
\* the successor is not unlinked.
removeNodeKeepsSuccessor(current) ==
    IF current.left = None /\ current.right = None THEN None
    ELSE IF current.left = None THEN current.right
    ELSE IF current.right = None THEN current.left
    ELSE Some([current EXCEPT !.value = leftmost(Val(current.right)).value])

\* lines 100-149: what the link that led to `current` refers to afterwards
removeNode(current) ==
    IF current.left = None /\ current.right = None THEN None
    ELSE IF current.left = None THEN current.right
    ELSE IF current.right = None THEN current.left
    ELSE Some([current EXCEPT !.value = leftmost(Val(current.right)).value,
                              !.right = unlinkLeftmost(Val(current.right))])

\* lines 88-98: the descent from the root to the parent of the node found, and
\* the change made to its link
RECURSIVE removeBelow(_, _)
removeBelow(temp, element) ==
    IF element = Val(temp).value THEN removeNode(Val(temp))
    ELSE IF element < Val(temp).value
    THEN Some([Val(temp) EXCEPT !.left = removeBelow(Val(temp).left, element)])
    ELSE Some([Val(temp) EXCEPT !.right = removeBelow(Val(temp).right, element)])

\* BST.delete
bstDelete(self, element) ==
    IF bstSearch(self.root, element) = None THEN self
    ELSE [root |-> removeBelow(self.root, element), size |-> self.size - 1]

\* The branch of delete a call takes.
deleteCase(self, element) ==
    LET current == bstSearch(self.root, element)
    IN  IF current = None THEN "absent"
        ELSE IF Val(current).left = None /\ Val(current).right = None THEN "leaf"
        ELSE IF Val(current).left = None THEN "right child"
        ELSE IF Val(current).right = None THEN "left child"
        ELSE "two children"

\* BST.inorder: the values of the nodes it yields, in order
RECURSIVE inorder(_)
inorder(current) ==
    IF current = None THEN << >>
    ELSE inorder(Val(current).left) \o << Val(current).value >>
             \o inorder(Val(current).right)

Values == 1..MaxValue

\* In SpecBST tree is the BST object, S the values inserted and not deleted
\* since, and hist the branch the last delete took ("root" added when the node
\* deleted is the root).
BSTInit ==
    /\ tree = BST
    /\ pc = "returned"
    /\ op = "new"
    /\ arg = 0
    /\ err = "ok"
    /\ ret = None
    /\ i = 0
    /\ S = {}
    /\ hist = "none"
    /\ calls = 0

\* bst.insert(v)
BSTInsert(v) ==
    /\ pc = "idle"
    /\ tree' = bstInsert(tree, v)
    /\ pc' = "returned"
    /\ op' = "insert"
    /\ arg' = v
    /\ err' = "ok"
    /\ ret' = None
    /\ S' = S \cup {v}
    /\ hist' = IF v \in S THEN "duplicate" ELSE "new"
    /\ UNCHANGED << i, calls >>

\* bst.delete(v)
BSTDelete(v) ==
    /\ pc = "idle"
    /\ tree' = bstDelete(tree, v)
    /\ pc' = "returned"
    /\ op' = "delete"
    /\ arg' = v
    /\ err' = "ok"
    /\ ret' = None
    /\ S' = S \ {v}
    /\ hist' = IF tree.root # None /\ Val(tree.root).value = v
               THEN << "root", deleteCase(tree, v) >>
               ELSE << "inner", deleteCase(tree, v) >>
    /\ UNCHANGED << i, calls >>

\* [node.value for node in bst.inorder()]
BSTInorder ==
    /\ pc = "idle"
    /\ ret' = inorder(tree.root)
    /\ pc' = "returned"
    /\ op' = "inorder"
    /\ arg' = 0
    /\ err' = "ok"
    /\ UNCHANGED << tree, i, S, hist, calls >>

BSTNext ==
    \/ Continue
    \/ \E v \in Values : BSTInsert(v)
    \/ \E v \in Values : BSTDelete(v)
    \/ BSTInorder

SpecBST == BSTInit /\ [][BSTNext]_vars

\* ------------------------------------ inserts and deletes of keys in the universe
\* Spec's calls with the keys of [0, U) alone, and deletes of present keys alone.
RangeInsert(k) == InRange(k) /\ Insert(k)

MemberDelete(k) == InRange(k) /\ isin(tree, k) = Result(TRUE) /\ Delete(k)

MembersNext ==
    \/ Continue
    \/ \E k \in Keys : RangeInsert(k)
    \/ \E k \in Keys : MemberDelete(k)

SpecMembers == Init /\ [][MembersNext]_vars

\* Spec's insert and delete calls with any key of [0, U), present or not.
RangeDelete(k) == InRange(k) /\ Delete(k)

RangeNext ==
    \/ Continue
    \/ \E k \in Keys : RangeInsert(k)
    \/ \E k \in Keys : RangeDelete(k)

SpecRange == Init /\ [][RangeNext]_vars

\* --------------------------------------------- fill, then delete the minimum
\* tree.insert(k) of a key of [0, U) not inserted yet, before any delete
DrainInsert(k) ==
    /\ pc = "idle"
    /\ hist = "distinct"
    /\ InRange(k) /\ k \notin S
    /\ U \in ExhaustiveSizes \/ Cardinality(S) < MaxKeys
    /\ LET r == insert(tree, k)
       IN  /\ tree' = r.t
           /\ err' = r.err
    /\ pc' = "returned"
    /\ op' = "insert"
    /\ arg' = k
    /\ ret' = None
    /\ S' = S \cup {k}
    /\ UNCHANGED << i, hist, calls >>

\* tree.delete(tree.min) of a tree that is not empty
DeleteMin ==
    /\ pc = "idle"
    /\ tree.min # None
    /\ LET r == delete(tree, Val(tree.min))
       IN  /\ tree' = r.t
           /\ err' = r.err
    /\ pc' = "returned"
    /\ op' = "delete"
    /\ arg' = Val(tree.min)
    /\ ret' = None
    /\ S' = S \ {Val(tree.min)}
    /\ hist' = "any"
    /\ UNCHANGED << i, calls >>

DrainNext ==
    \/ Continue
    \/ \E k \in Keys : DrainInsert(k)
    \/ DeleteMin

SpecDrain == Init /\ [][DrainNext]_vars

\* ---------------------------------------------------- what the claims speak of
\* isin(k) returned True
IsMember(t, k) == isin(t, k) = Result(TRUE)

Universe == 0..(U - 1)

SetMin(T) == CHOOSE m \in T : \A x \in T : m <= x

SetMax(T) == CHOOSE m \in T : \A x \in T : x <= m

\* The least element of T above x, the greatest below it; None without one.
SuccessorIn(T, x) ==
    IF \E y \in T : y > x THEN Some(SetMin({y \in T : y > x})) ELSE None

PredecessorIn(T, x) ==
    IF \E y \in T : y < x THEN Some(SetMax({y \in T : y < x})) ELSE None

\* Everything a caller can observe of a tree through in-range keys.
Observable(t) ==
    [min |-> t.min, max |-> t.max,
     isin |-> [x \in Universe |-> isin(t, x)],
     successor |-> [x \in Universe |-> successor(t, x)],
     predecessor |-> [x \in Universe |-> predecessor(t, x)]]

\* A step of Spec that is the call of op_, from the caller's idle state.
CallOf(op_) == pc = "idle" /\ pc' = "returned" /\ op' = op_

\* --------------------------------------------------------------------- claims
\* C1: in a tree built by inserting distinct in-range keys, delete(key) of a
\* member key completes, isin(key) is false afterwards and every other member
\* is still a member, whether or not key is the minimum.
C1_DeleteRemovesMember ==
    [][(CallOf("delete") /\ hist = "distinct" /\ arg' \in S)
        => /\ err' = "ok"
           /\ ~IsMember(tree', arg')
           /\ \A j \in S \ {arg'} : IsMember(tree', j)]_vars

\* C2: in a tree built by inserts of in-range keys, insert(key) completes,
\* isin(key) is true right after it, and every key that was a member before
\* the insert is a member after it.
C2_InsertAddsMember ==
    [][(CallOf("insert") /\ hist' # "any")
        => /\ err' = "ok"
           /\ IsMember(tree', arg')
           /\ \A j \in Universe : IsMember(tree, j) => IsMember(tree', j)]_vars

\* C2's case: a third distinct key went into a tree of universe size 16, into
\* a cluster that was not empty.
C2_Witness ==
    /\ pc = "returned" /\ op = "insert" /\ hist = "distinct"
    /\ U = 16 /\ Cardinality(S) = 3
    /\ \E j \in S : j # arg /\ j # tree.min[1] /\ high(tree, j) = high(tree, arg)
    /\ \A j \in S : IsMember(tree, j)

\* C3: after a duplicate-free set S of in-range keys has been inserted into an
\* empty tree, in whatever order, min is the least element of S and max the
\* greatest.
C3_MinMaxOfSet ==
    (hist = "distinct" /\ S # {})
        => tree.min = Some(SetMin(S)) /\ tree.max = Some(SetMax(S))

\* C3's case: the last of three keys inserted is the least, so it replaced the
\* cached minimum.
C3_Witness ==
    /\ pc = "returned" /\ op = "insert" /\ hist = "distinct"
    /\ U = 16 /\ Cardinality(S) = 3
    /\ arg = SetMin(S)
    /\ tree.min = Some(arg)

\* C4: in a tree holding a set S built by inserting distinct in-range keys,
\* successor(x) of an in-range x, in S or not, returns the least element of S
\* above x, and None when there is none.
C4_SuccessorOfSet ==
    (pc = "returned" /\ op = "successor" /\ hist = "distinct" /\ InRange(arg))
        => err = "ok" /\ ret = SuccessorIn(S, arg)

\* C4's case: successor(x) of an x not in S was found in a later cluster that
\* holds two keys.
C4_Witness ==
    /\ pc = "returned" /\ op = "successor" /\ hist = "distinct"
    /\ U = 16 /\ Cardinality(S) = 3
    /\ arg \notin S /\ ret # None
    /\ high(tree, ret[1]) > high(tree, arg)
    /\ \E j \in S : j > ret[1] /\ high(tree, j) = high(tree, ret[1])

\* C5: in a tree holding a set S built by inserting distinct in-range keys,
\* predecessor(x) of an in-range x, in S or not, returns the greatest element
\* of S below x, and None when there is none; it is the cached min when
\* min < x and no earlier cluster holds a key.
C5_PredecessorOfSet ==
    (pc = "returned" /\ op = "predecessor" /\ hist = "distinct" /\ InRange(arg))
        => err = "ok" /\ ret = PredecessorIn(S, arg)

\* C5's case: predecessor(x) is the cached min, which no cluster holds, and
\* the summary has no cluster before x's.
C5_Witness ==
    /\ pc = "returned" /\ op = "predecessor" /\ hist = "distinct"
    /\ U = 16 /\ Cardinality(S) = 3
    /\ ret = tree.min /\ ret # None
    /\ predecessor(tree.summary, high(tree, arg)) = Result(None)
    /\ high(tree, arg) > 0

\* C6: test_veb's trace (insert 0..15 in increasing order, query, delete 0..15
\* in increasing order) raises nothing and fails no assertion: isin(i) is true
\* just before delete(i), delete(i) completes, isin(i) is false just after it,
\* and after the last delete min and max are None.
C6_FillThenDrain ==
    /\ pc \notin {"raised", "failed"}
    /\ err = "ok"
    /\ pc = "delete" => IsMember(tree, i)
    /\ pc = "notin" => ~IsMember(tree, i)
    /\ pc = "done" => tree.min = None /\ tree.max = None /\ S = {}

\* C6's case: the test ran to its end.
C6_Witness ==
    pc = "done" /\ op = "isin" /\ arg = 15 /\ ret = FALSE /\ hist = "any"

\* C7: in a tree built by inserting distinct in-range keys, insert(k) of a key
\* k already in it completes and leaves min, max and, for every in-range x,
\* isin(x), successor(x) and predecessor(x) as they were.
C7_InsertIdempotent ==
    [][(CallOf("insert") /\ hist = "distinct" /\ arg' \in S)
        => err' = "ok" /\ Observable(tree') = Observable(tree)]_vars

\* C7's case: the key inserted again is the cached minimum, which the second
\* insert has stored in its cluster as well.
C7_Witness ==
    /\ pc = "returned" /\ op = "insert" /\ hist = "inserts"
    /\ U = 16 /\ Cardinality(S) = 2
    /\ tree.min = Some(arg)
    /\ IsMember(tree.cluster[high(tree, arg)], low(tree, arg))

\* C8: a call of insert, delete, isin, successor or predecessor with a key
\* outside [0, universe_size) fails with KeyOutOfRange.
C8_KeyOutOfRange ==
    (pc = "returned" /\ op # "new" /\ ~InRange(arg)) => err = "KeyOutOfRange"

\* C9: an insert or delete call that ends in an error leaves the tree (min,
\* max, summary and clusters, at every level) as it was before the call.
C9_NoPartialMutation ==
    [][((CallOf("insert") \/ CallOf("delete")) /\ err' # "ok")
        => tree' = tree]_vars

\* C10: in a tree built by inserting distinct in-range keys, delete(k) of an
\* in-range key k that is not in it completes and leaves min, max and the
\* isin result of every key as they were.
C10_DeleteAbsentNoOp ==
    [][(CallOf("delete") /\ hist = "distinct" /\ InRange(arg') /\ arg' \notin S)
        => /\ err' = "ok"
           /\ tree'.min = tree.min /\ tree'.max = tree.max
           /\ \A x \in Universe : isin(tree', x) = isin(tree, x)]_vars

\* A size of the form 2^(2^k): 2, or the square of such a size.
RECURSIVE ValidSize(_)
ValidSize(u) ==
    u = 2 \/ (u > 2 /\ isqrt(u) * isqrt(u) = u /\ ValidSize(isqrt(u)))

\* C11: vEB(size) with a size not of the form 2^(2^k) fails with
\* InvalidUniverseSize; with a size of that form it returns an empty tree, min
\* and max None.
C11_InvalidUniverseSize ==
    (pc = "returned" /\ op = "new")
        => IF ValidSize(arg)
           THEN err = "ok" /\ tree # None /\ tree.min = None /\ tree.max = None
           ELSE err = "InvalidUniverseSize"

\* C12: for a universe size U of the form 2^(2^k) above 2 and every x in
\* [0, U), get(high(x), low(x)) is x, and high(x) and low(x) are both in
\* [0, sqrt(U)).
C12_SplitRoundTrip ==
    (pc = "split" /\ ValidSize(U) /\ U > 2)
        => /\ ret.get = arg
           /\ ret.high \in 0..(isqrt(U) - 1)
           /\ ret.low \in 0..(isqrt(U) - 1)

\* C12's case: a key of the last cluster of a tree of universe size 16, with
\* a low part that is not 0.
C12_Witness ==
    /\ pc = "split" /\ op = "split" /\ U = 16
    /\ arg = 13 /\ ret = [high |-> 3, low |-> 1, get |-> 13]

\* C13: after any sequence of BST.insert and BST.delete calls, inorder() yields
\* exactly the values inserted and not deleted since, each once and in strictly
\* increasing order, and size is the number of values yielded.
C13_InorderSortedSet ==
    LET seq == inorder(tree.root)
    IN  /\ \A j \in 1..(Len(seq) - 1) : seq[j] < seq[j + 1]
        /\ {seq[j] : j \in 1..Len(seq)} = S
        /\ tree.size = Len(seq)
        /\ (pc = "returned" /\ op = "inorder") => ret = seq

\* C13's case: the root, which had two children, was deleted, and three values
\* are left.
C13_Witness ==
    /\ pc = "returned" /\ op = "delete"
    /\ hist = << "root", "two children" >>
    /\ Cardinality(S) = 3 /\ tree.size = 3
    /\ arg \notin S

\* The tree, its summary and its clusters, and theirs: every recursion level.
RECURSIVE Levels(_)
Levels(t) ==
    IF t.size = 2 THEN {t}
    ELSE {t} \cup Levels(t.summary)
             \cup UNION {Levels(t.cluster[j]) : j \in DOMAIN t.cluster}

\* The keys of its universe that isin finds in t.
Members(t) == {k \in 0..(t.size - 1) : IsMember(t, k)}

\* C14: after any sequence of insert calls and of delete calls of present
\* keys, all with keys in [0, U), at every recursion level min is None iff max
\* is None iff no key is a member; with exactly one member min and max are
\* that key; and min <= max when both are present.
C14_MinMaxInvariant ==
    \A t \in Levels(tree) :
        /\ (t.min = None) = (t.max = None)
        /\ (t.min = None) = (Members(t) = {})
        /\ Cardinality(Members(t)) = 1 => Members(t) = {Val(t.min)} /\ t.min = t.max
        /\ (t.min # None /\ t.max # None) => Val(t.min) <= Val(t.max)

\* C15: after any sequence of insert and delete calls with keys in [0, U), at
\* every level with clusters the members of summary are the indices of the
\* clusters whose min is not None.
C15_SummaryConsistent ==
    \A t \in Levels(tree) :
        t.size > 2 =>
            Members(t.summary) = {j \in DOMAIN t.cluster : t.cluster[j].min # None}

\* A delete of the minimum 0 of {0, 1, 2, 3} in vEB(4) has emptied cluster 0
\* and taken it out of summary, cluster 1 staying.
C15_Witness ==
    /\ pc = "returned" /\ op = "delete" /\ err = "ok" /\ arg = 0
    /\ U = 4 /\ tree.min = Some(1)
    /\ tree.cluster[0].min = None
    /\ Members(tree.summary) = {1}

\* C16: after any sequence of insert and delete calls with keys in [0, U), at
\* every non-empty level with clusters the cached min is not a member of the
\* cluster it belongs to.
C16_LazyMinimum ==
    \A t \in Levels(tree) :
        (t.size > 2 /\ t.min # None) =>
            ~IsMember(t.cluster[high(t, Val(t.min))], low(t, Val(t.min)))
\* C17: for U in {2, 4, 16} and a non-empty set S built by inserting distinct
\* keys of [0, U) and then deleting the current minimum again and again,
\* delete(min) completes without error, afterwards the members are S without
\* the old minimum, min is the least remaining key (None if none remains), and
\* max is unchanged unless the tree became empty.
C17_DeleteMinWorks ==
    [][CallOf("delete") =>
        /\ S # {} /\ Members(tree) = S
        /\ arg' = SetMin(S)
        /\ err' = "ok"
        /\ Members(tree') = S \ {arg'}
        /\ tree'.min = (IF S' = {} THEN None ELSE Some(SetMin(S')))
        /\ tree'.max = (IF S' = {} THEN None ELSE tree.max)
        /\ tree.max = Some(SetMax(S))]_vars

\* C17's case: the minimum 4 of {4, 5, 6, 7}, all of cluster 1 of vEB(16), was
\* deleted, which deletes the minimum of that cluster in its turn.
C17_Witness ==
    /\ pc = "returned" /\ op = "delete" /\ err = "ok"
    /\ U = 16 /\ arg = 4 /\ S = {5, 6, 7}
    /\ tree.min = Some(5) /\ tree.max = Some(7)

=============================================================================
